---- MODULE Spec2Model ----
(***************************************************************************)
(* A model of the I/O and caching glue of pyro-cov:                        *)
(*   - pyrocov/fasta.py   NextcladeDB and ShardedFastaWriter               *)
(*   - mutrans.py         the cached decorator, the cache filenames, main  *)
(*   - preprocess_gisaid.py  update_shards                                 *)
(*   - pyrophylo/strains.py  the constructor of TimeSpaceStrainModel       *)
(*   - pyrocov/mutrans.py    load_data, up to the weekly_strains tensor    *)
(* Each component has its own specification (SpecDB, SpecWriter, ...);     *)
(* the variables of the other components are held at their initial value.  *)
(***************************************************************************)
EXTENDS Integers, Sequences, FiniteSets, TLC

VARIABLES
    \* ---- NextcladeDB (pyrocov/fasta.py) ----
    already_aligned,   \* self._already_aligned: set of hashes
    pending,           \* self._pending: set of hashes
    fasta_file,        \* contents of <prefix>.temp.fasta: sequence of FASTA records
    tasks,             \* self._tasks: hash -> list of fn_args
    rows_file,         \* <prefix>.rows.tsv      [exists, lines]
    rows_temp_file,    \* <prefix>rows.temp.tsv  [exists, lines]
    header_file,       \* <prefix>.header.tsv    [exists, lines]
    tsv_file,          \* <prefix>.temp.tsv      [exists, lines]
    max_fasta_count,   \* self.max_fasta_count
    pc,                \* position inside _flush ("idle" outside of it)
    idx,               \* loop index i of the append loop of _flush
    ret,               \* the call that is waiting for _flush to return
    nextTask,          \* the next fn_args handed in by the caller
    sessions,          \* number of processes started so far, minus one
    submitted,         \* history: per hash, nextclade runs of this session that got it
    loaded,            \* history: the hashes __init__ loaded from the rows file
    registered,        \* history: task -> hash, for the tasks put into self._tasks
    calls,             \* history: the calls fn(*args, row) made by wait
    lastOp,            \* history: the last public call and its outcome
    pre_rows,          \* history: lines of the rows file when the last _flush began
    batch_rows,        \* history: rows nextclade produced for the last _flush
    \* ---- ShardedFastaWriter (pyrocov/fasta.py) ----
    w_max_count,       \* self.max_count
    w_file_count,      \* self._file_count
    w_line_count,      \* self._line_count
    w_file,            \* self._file: None, or Some(number in the name of the open file)
    w_disk,            \* the files written: number in the name -> sequence of records
    w_writes,          \* history: number of write calls so far
    \* ---- update_shards (preprocess_gisaid.py) ----
    s_lines,           \* the lines of ~/data/gisaid/provision.json
    s_num_shards,      \* args.num_shards
    s_force,           \* args.force
    s_disk,            \* the shard files: shard name -> sequence of lines
    s_i,               \* loop variable i of update_shards: None while unbound, or Some(i)
    s_pc,              \* position in main / update_shards
    s_written,         \* history: input line number -> shards it was written to
    \* ---- mutrans.py: main and the cached functions ----
    c_disk,            \* the files under results/: filename -> contents
    c_args,            \* args of the running process (None when none runs)
    c_pc,              \* position in main
    c_dataset,         \* main's local `dataset`
    c_result,          \* main's local `result`: sequence of <<config, value>>
    c_k,               \* index of the loop over configs
    c_runs,            \* number of processes started so far
    c_events,          \* history: the cached calls and saves of this process
    c_disk0,           \* history: c_disk when this process started
    c_tally,           \* history: filename -> runs of the wrapped function and the
                       \*          results returned, over all processes
    \* ---- mutrans.py: the filenames of two calls ----
    n_kind,            \* which cached function is called
    n_a,               \* the arguments of the first call
    n_b,               \* the arguments of the second call
    n_file_a,          \* None, or Some(filename of the first call)
    n_file_b,          \* None, or Some(filename of the second call)
    \* ---- TimeSpaceStrainModel.__init__ (pyrophylo/strains.py) ----
    m_in,              \* the arguments as the caller passed them
    m_pc,              \* position in __init__
    m_err,             \* None, or Some(line and exception of the statement that raised)
    m_sample_time,     \* the caller's sample_time tensor, as it is now
    m_sample_region,   \* the caller's sample_region tensor, as it is now
    m_sample_strain,   \* the caller's sample_strain tensor, as it is now
    m_counts,          \* strain_data before masking: (T, Rc, S) nested sequences
    m_strain_mask,     \* strain_mask: (T, Rc) nested sequences of booleans
    m_strain_data,     \* strain_data after masking: one row of S counts per bucket kept
    m_strain_total,    \* strain_total after masking
    m_self,            \* the attributes and buffers set on self
    \* ---- load_data (pyrocov/mutrans.py) ----
    l_columns,         \* columns: the rows of results/gisaid.columns.pkl
    l_lineage_id_inv,  \* lineage_id_inv: the compressed lineages of the feature table
    l_virus_name_pattern, \* None, or Some(pattern)
    l_location_pattern,   \* None, or Some(pattern)
    l_row,             \* the row the loop is at (counting from 1)
    l_sparse_data,     \* sparse_data: Counter, (t, p, s) -> count
    l_location_id,     \* location_id: the locations in the order of their ids
    l_weekly_strains,  \* None, or Some(weekly_strains) as (T, P, S) nested sequences
    l_pc               \* position in load_data

dbVars == <<already_aligned, pending, fasta_file, tasks, rows_file, rows_temp_file,
            header_file, tsv_file, max_fasta_count, pc, idx, ret, nextTask, sessions,
            submitted, loaded, registered, calls, lastOp, pre_rows, batch_rows>>

writerVars == <<w_max_count, w_file_count, w_line_count, w_file, w_disk, w_writes>>

shardVars == <<s_lines, s_num_shards, s_force, s_disk, s_i, s_pc, s_written>>

mainVars == <<c_disk, c_args, c_pc, c_dataset, c_result, c_k, c_runs, c_events, c_disk0,
              c_tally>>

nameVars == <<n_kind, n_a, n_b, n_file_a, n_file_b>>

strainVars == <<m_in, m_pc, m_err, m_sample_time, m_sample_region, m_sample_strain,
                m_counts, m_strain_mask, m_strain_data, m_strain_total, m_self>>

loadVars == <<l_columns, l_lineage_id_inv, l_virus_name_pattern, l_location_pattern,
              l_row, l_sparse_data, l_location_id, l_weekly_strains, l_pc>>

vars == <<dbVars, writerVars, shardVars, mainVars, nameVars, strainVars, loadVars>>

\* What each component leaves alone.
notDbVars == <<writerVars, shardVars, mainVars, nameVars, strainVars, loadVars>>
notWriterVars == <<dbVars, shardVars, mainVars, nameVars, strainVars, loadVars>>
notShardVars == <<dbVars, writerVars, mainVars, nameVars, strainVars, loadVars>>
notMainVars == <<dbVars, writerVars, shardVars, nameVars, strainVars, loadVars>>
notNameVars == <<dbVars, writerVars, shardVars, mainVars, strainVars, loadVars>>
notStrainVars == <<dbVars, writerVars, shardVars, mainVars, nameVars, loadVars>>
notLoadVars == <<dbVars, writerVars, shardVars, mainVars, nameVars, strainVars>>

(***************************************************************************)
(* Bounds of the model.                                                    *)
(***************************************************************************)
MaxTasks == 4          \* calls of schedule / maybe_schedule per behaviour
MaxSessions == 2       \* restarts of the process (crash or exit) per behaviour
MaxFastaCount == 2     \* max_fasta_count is drawn from 1..MaxFastaCount
MaxCount == 3          \* ShardedFastaWriter's max_count is drawn from 1..MaxCount
MaxWrites == 5         \* write calls per behaviour
MaxLines == 5          \* lines of the input file of update_shards
MaxShards == 3         \* args.num_shards is drawn from 1..MaxShards
MaxRuns == 2           \* runs of mutrans.py per behaviour
MaxT == 2              \* T, the number of time steps, is drawn from 1..MaxT
MaxSamples == 2        \* N, the number of genetic samples, is drawn from 0..MaxSamples
MaxRows == 3           \* rows of results/gisaid.columns.pkl

\* None, and a reference to a value that is there.
None == <<>>
Some(v) == <<v>>

(***************************************************************************)
(* NextcladeDB                                                             *)
(***************************************************************************)
\* Input sequences: strings as tuples of characters; two of them differ only
\* in a newline.
SeqPool == { <<"A">>, <<"A", "\n">>, <<"C">> }

NotNewline(c) == c # "\n"

\* hashlib.sha1 of the stripped text: an injective naming of the texts.
sha1(text) == CASE text = <<"A">> -> "sha1_A"
                [] text = <<"C">> -> "sha1_C"
                [] OTHER -> "sha1_other"

\* seq.replace("\n", "") and then the digest.
hash_sequence(seq) == sha1(SelectSeq(seq, NotNewline))

Keys == { hash_sequence(s) : s \in SeqPool }

Absent == [exists |-> FALSE, lines |-> <<>>]
File(lines) == [exists |-> TRUE, lines |-> lines]

HeaderLine == <<"seqName", "clade">>

\* ./nextclade: the TSV it writes for an input FASTA file, a header line and
\* one row per record, the first column being the record's name.
nextclade(fasta) == <<HeaderLine>> \o [i \in 1..Len(fasta) |-> <<fasta[i].name, "clade">>]

\* line.split("\t", 1)[0] over the lines of the rows file.
load_already_aligned(rows) ==
    IF rows.exists THEN { rows.lines[i][1] : i \in 1..Len(rows.lines) } ELSE {}

NoTasks == [k \in Keys |-> <<>>]
NoOp == [op |-> "none", key |-> "none", task |-> 0, outcome |-> "none"]
NoRet == [op |-> "none", key |-> "none", task |-> 0]

\* A schedule that aligns every sequence it is given.
needs_alignment_always(key) == TRUE

\* schedule's test for calling _schedule_alignment.
needs_alignment(key) == key \notin already_aligned

\* A maybe_schedule that also accepts a sequence waiting in the FASTA file.
is_aligned_or_pending(key) == key \in already_aligned \cup pending

\* maybe_schedule's test for registering the task.
is_aligned(key) == key \in already_aligned

\* dict(zip(header, row))
row_dict(header, row) == [c \in { header[j] : j \in 1..Len(header) } |->
                            row[CHOOSE j \in 1..Len(header) : header[j] = c]]

\* A wait that reads the entries of a row with self._tasks.get(key, []).
RECURSIVE wait_loop_get(_, _, _, _, _)
wait_loop_get(header, rows, i, t, c) ==
    IF i > Len(rows) THEN [tasks |-> t, calls |-> c]
    ELSE LET row == rows[i]
             key == row[1]
             got == IF key \in DOMAIN t THEN t[key] ELSE <<>>
             made == [j \in 1..Len(got) |->
                        [task |-> got[j], row |-> row_dict(header, row)]]
         IN wait_loop_get(header, rows, i + 1, t, c \o made)

\* The loop of wait over the rows file: self._tasks.pop(key, []) and one call
\* fn(*args, row) per popped entry.
RECURSIVE wait_loop(_, _, _, _, _)
wait_loop(header, rows, i, t, c) ==
    IF i > Len(rows) THEN [tasks |-> t, calls |-> c]
    ELSE LET row == rows[i]
             key == row[1]
             popped == IF key \in DOMAIN t THEN t[key] ELSE <<>>
             made == [j \in 1..Len(popped) |->
                        [task |-> popped[j], row |-> row_dict(header, row)]]
         IN wait_loop(header, rows, i + 1,
                      IF key \in DOMAIN t THEN [t EXCEPT ![key] = <<>>] ELSE t,
                      c \o made)

Record(key, seq) == [name |-> key, sequence |-> seq]

\* NextcladeDB.__init__(max_fasta_count=n) in an empty directory.
NewDB(n) ==
    /\ max_fasta_count = n
    /\ rows_file = Absent
    /\ rows_temp_file = Absent
    /\ header_file = Absent
    /\ tsv_file = Absent
    /\ already_aligned = load_already_aligned(rows_file)
    /\ fasta_file = <<>>
    /\ pending = {}
    /\ tasks = NoTasks
    /\ pc = "idle"
    /\ idx = 0
    /\ ret = NoRet
    /\ nextTask = 1
    /\ sessions = 0
    /\ submitted = [k \in Keys |-> 0]
    /\ loaded = already_aligned
    /\ registered = <<>>
    /\ calls = <<>>
    /\ lastOp = NoOp
    /\ pre_rows = <<>>
    /\ batch_rows = <<>>

\* self._tasks[key].append(fn_args), with the history of what was registered.
Register(key, task) ==
    /\ tasks' = [tasks EXCEPT ![key] = Append(@, task)]
    /\ registered' = registered @@ (task :> key)

\* Entry of _flush with work pending: the caller `r` resumes when it returns.
BeginFlush(r) ==
    /\ pc' = "check_call"
    /\ ret' = r
    /\ pre_rows' = rows_file.lines
    /\ batch_rows' = <<>>

\* The rest of wait after self._flush(): read the header, walk the rows file.
WaitTail ==
    LET wl == wait_loop(header_file.lines[1], rows_file.lines, 1, tasks, calls)
    IN /\ tasks' = wl.tasks
       /\ calls' = wl.calls

\* schedule(sequence, *fn_args), up to the return of the call or the entry
\* into _flush.
Schedule(seq) ==
    LET key == hash_sequence(seq)
        task == nextTask
    IN /\ pc = "idle"
       /\ nextTask <= MaxTasks
       /\ nextTask' = nextTask + 1
       /\ IF needs_alignment(key)
          THEN /\ fasta_file' = Append(fasta_file, Record(key, seq))
               /\ pending' = pending \cup {key}
               /\ IF Cardinality(pending') >= max_fasta_count
                  THEN /\ BeginFlush([op |-> "schedule", key |-> key, task |-> task])
                       /\ lastOp' = [op |-> "schedule", key |-> key, task |-> task,
                                     outcome |-> "flushing"]
                       /\ UNCHANGED <<tasks, registered>>
                  ELSE /\ Register(key, task)
                       /\ lastOp' = [op |-> "schedule", key |-> key, task |-> task,
                                     outcome |-> "returned"]
                       /\ UNCHANGED <<pc, ret, pre_rows, batch_rows>>
          ELSE /\ Register(key, task)
               /\ lastOp' = [op |-> "schedule", key |-> key, task |-> task,
                             outcome |-> "returned"]
               /\ UNCHANGED <<fasta_file, pending, pc, ret, pre_rows, batch_rows>>
       /\ UNCHANGED <<already_aligned, rows_file, rows_temp_file, header_file, tsv_file,
                      max_fasta_count, idx, sessions, submitted, loaded, calls>>
       /\ UNCHANGED notDbVars

\* maybe_schedule(sequence, *fn_args)
MaybeSchedule(seq) ==
    LET key == hash_sequence(seq)
        task == nextTask
    IN /\ pc = "idle"
       /\ nextTask <= MaxTasks
       /\ nextTask' = nextTask + 1
       /\ IF is_aligned(key)
          THEN /\ Register(key, task)
               /\ lastOp' = [op |-> "maybe_schedule", key |-> key, task |-> task,
                             outcome |-> "registered"]
          ELSE /\ lastOp' = [op |-> "maybe_schedule", key |-> key, task |-> task,
                             outcome |-> "dropped"]
               /\ UNCHANGED <<tasks, registered>>
       /\ UNCHANGED <<already_aligned, pending, fasta_file, rows_file, rows_temp_file,
                      header_file, tsv_file, max_fasta_count, pc, idx, ret, sessions,
                      submitted, loaded, calls, pre_rows, batch_rows>>
       /\ UNCHANGED notDbVars

\* A direct call of _flush().
Flush ==
    /\ pc = "idle"
    /\ IF pending = {}
       THEN /\ lastOp' = [op |-> "flush", key |-> "none", task |-> 0, outcome |-> "returned"]
            /\ UNCHANGED <<pc, ret, pre_rows, batch_rows>>
       ELSE /\ BeginFlush([op |-> "flush", key |-> "none", task |-> 0])
            /\ lastOp' = [op |-> "flush", key |-> "none", task |-> 0, outcome |-> "flushing"]
    /\ UNCHANGED <<already_aligned, pending, fasta_file, tasks, rows_file, rows_temp_file,
                   header_file, tsv_file, max_fasta_count, idx, nextTask, sessions,
                   submitted, loaded, registered, calls>>
    /\ UNCHANGED notDbVars

\* wait(): with nothing pending _flush returns at once and the files are read
\* (open raises when one is missing); otherwise _flush runs first.
Wait ==
    /\ pc = "idle"
    /\ IF pending = {}
       THEN /\ IF header_file.exists /\ rows_file.exists
               THEN /\ WaitTail
                    /\ lastOp' = [op |-> "wait", key |-> "none", task |-> 0,
                                  outcome |-> "returned"]
               ELSE /\ lastOp' = [op |-> "wait", key |-> "none", task |-> 0,
                                  outcome |-> "raised"]
                    /\ UNCHANGED <<tasks, calls>>
            /\ UNCHANGED <<pc, ret, pre_rows, batch_rows>>
       ELSE /\ BeginFlush([op |-> "wait", key |-> "none", task |-> 0])
            /\ lastOp' = [op |-> "wait", key |-> "none", task |-> 0, outcome |-> "flushing"]
            /\ UNCHANGED <<tasks, calls>>
    /\ UNCHANGED <<already_aligned, pending, fasta_file, rows_file, rows_temp_file,
                   header_file, tsv_file, max_fasta_count, idx, nextTask, sessions,
                   submitted, loaded, registered>>
    /\ UNCHANGED notDbVars

\* _flush: self._fasta_file.close() and check_call(cmd); nextclade reads the
\* FASTA file and writes the TSV file.
CheckCall ==
    /\ pc = "check_call"
    /\ tsv_file' = File(nextclade(fasta_file))
    /\ submitted' = [k \in Keys |->
                       IF \E i \in 1..Len(fasta_file) : fasta_file[i].name = k
                       THEN submitted[k] + 1 ELSE submitted[k]]
    /\ batch_rows' = Tail(tsv_file'.lines)
    /\ pc' = "copyfile"
    /\ UNCHANGED <<already_aligned, pending, fasta_file, tasks, rows_file, rows_temp_file,
                   header_file, max_fasta_count, idx, ret, nextTask, sessions, loaded,
                   registered, calls, lastOp, pre_rows>>
    /\ UNCHANGED notDbVars

\* _flush: the rows file, when there is one, is copied over the temporary
\* file, which is then opened for appending (that creates it when missing).
rows_temp_for_append ==
    IF rows_file.exists THEN File(rows_file.lines)
    ELSE IF rows_temp_file.exists THEN rows_temp_file ELSE File(<<>>)

CopyFile ==
    /\ pc = "copyfile"
    /\ rows_temp_file' = rows_temp_for_append
    /\ idx' = 0
    /\ pc' = "append"
    /\ UNCHANGED <<already_aligned, pending, fasta_file, tasks, rows_file, header_file,
                   tsv_file, max_fasta_count, ret, nextTask, sessions, submitted, loaded,
                   registered, calls, lastOp, pre_rows, batch_rows>>
    /\ UNCHANGED notDbVars

\* _flush: one iteration of the loop over the TSV file: line 0 goes to the
\* header file, every other line is appended to the temporary file.
AppendLine ==
    /\ pc = "append"
    /\ idx < Len(tsv_file.lines)
    /\ LET line == tsv_file.lines[idx + 1]
       IN IF idx # 0
          THEN /\ rows_temp_file' = File(Append(rows_temp_file.lines, line))
               /\ UNCHANGED header_file
          ELSE /\ header_file' = File(<<line>>)
               /\ UNCHANGED rows_temp_file
    /\ idx' = idx + 1
    /\ pc' = IF idx + 1 = Len(tsv_file.lines) THEN "rename" ELSE "append"
    /\ UNCHANGED <<already_aligned, pending, fasta_file, tasks, rows_file, tsv_file,
                   max_fasta_count, ret, nextTask, sessions, submitted, loaded,
                   registered, calls, lastOp, pre_rows, batch_rows>>
    /\ UNCHANGED notDbVars

\* _flush: os.rename(rows_temp_filename, rows_filename)
Rename ==
    /\ pc = "rename"
    /\ rows_file' = rows_temp_file
    /\ rows_temp_file' = Absent
    /\ pc' = "cleanup"
    /\ UNCHANGED <<already_aligned, pending, fasta_file, tasks, header_file, tsv_file,
                   max_fasta_count, idx, ret, nextTask, sessions, submitted, loaded,
                   registered, calls, lastOp, pre_rows, batch_rows>>
    /\ UNCHANGED notDbVars

\* _flush: the FASTA and TSV files are removed, the FASTA file is opened
\* anew, the pending hashes become aligned; then the caller resumes:
\* schedule registers its task, wait reads the files.
Finish ==
    /\ pc = "cleanup"
    /\ fasta_file' = <<>>
    /\ tsv_file' = Absent
    /\ already_aligned' = already_aligned \cup pending
    /\ pending' = {}
    /\ pc' = "idle"
    /\ ret' = NoRet
    /\ UNCHANGED <<header_file, rows_file>>
    /\ CASE ret.op = "schedule" -> /\ Register(ret.key, ret.task)
                                   /\ UNCHANGED calls
         [] ret.op = "wait" -> /\ WaitTail
                               /\ UNCHANGED registered
         [] OTHER -> UNCHANGED <<tasks, registered, calls>>
    /\ lastOp' = [lastOp EXCEPT !.outcome = "returned"]
    /\ UNCHANGED <<rows_temp_file, max_fasta_count, idx, nextTask, sessions, submitted,
                   loaded, pre_rows, batch_rows>>
    /\ UNCHANGED notDbVars

\* The process ends (it exits, crashes, or an exception leaves _flush) and a
\* later process constructs a NextcladeDB over the same files.
Restart ==
    /\ sessions < MaxSessions
    /\ sessions' = sessions + 1
    /\ already_aligned' = load_already_aligned(rows_file)
    /\ loaded' = already_aligned'
    /\ fasta_file' = <<>>
    /\ pending' = {}
    /\ tasks' = NoTasks
    /\ pc' = "idle"
    /\ idx' = 0
    /\ ret' = NoRet
    /\ submitted' = [k \in Keys |-> 0]
    /\ registered' = <<>>
    /\ calls' = <<>>
    /\ lastOp' = NoOp
    /\ UNCHANGED <<rows_file, rows_temp_file, header_file, tsv_file, max_fasta_count,
                   nextTask, pre_rows, batch_rows>>
    /\ UNCHANGED notDbVars

NextDB ==
    \/ \E seq \in SeqPool : Schedule(seq)
    \/ \E seq \in SeqPool : MaybeSchedule(seq)
    \/ Flush
    \/ Wait
    \/ CheckCall
    \/ CopyFile
    \/ AppendLine
    \/ Rename
    \/ Finish
    \/ Restart


(***************************************************************************)
(* ShardedFastaWriter                                                      *)
(***************************************************************************)

NamePool == {"n1", "n2"}

\* ShardedFastaWriter.__init__(filepattern, max_count=n)
NewWriter(n) ==
    /\ w_max_count = n
    /\ w_file_count = 0
    /\ w_line_count = 0
    /\ w_file = None
    /\ w_disk = <<>>
    /\ w_writes = 0

\* _open: open(filename, "wt") creates or truncates the file whose name
\* carries self._file_count.
open_wt(disk, number) == (number :> <<>>) @@ disk

\* A write that changes files only once the limit is exceeded.
shard_full_late == w_line_count > w_max_count

\* write's test for moving on to the next file.
shard_full == w_line_count = w_max_count

\* __enter__
Enter ==
    /\ w_file = None
    /\ w_disk' = open_wt(w_disk, w_file_count)
    /\ w_file' = Some(w_file_count)
    /\ w_file_count' = w_file_count + 1
    /\ UNCHANGED <<w_max_count, w_line_count, w_writes>>
    /\ UNCHANGED notWriterVars

\* __exit__
Exit ==
    /\ w_file # None
    /\ w_file' = None
    /\ w_file_count' = 0
    /\ w_line_count' = 0
    /\ UNCHANGED <<w_max_count, w_disk, w_writes>>
    /\ UNCHANGED notWriterVars

\* write(name, sequence) inside a with-block
Write(name, sequence) ==
    /\ w_file # None
    /\ w_writes < MaxWrites
    /\ w_writes' = w_writes + 1
    /\ LET rotate == shard_full
           file == IF rotate THEN w_file_count ELSE w_file[1]
           disk == IF rotate THEN open_wt(w_disk, w_file_count) ELSE w_disk
           count == IF rotate THEN 0 ELSE w_line_count
       IN /\ w_file' = Some(file)
          /\ w_file_count' = IF rotate THEN w_file_count + 1 ELSE w_file_count
          /\ w_disk' = [disk EXCEPT ![file] = Append(@, <<name, sequence>>)]
          /\ w_line_count' = count + 1
    /\ UNCHANGED w_max_count
    /\ UNCHANGED notWriterVars

NextWriter ==
    \/ Enter
    \/ Exit
    \/ \E name \in NamePool : Write(name, <<"A", "C">>)

(***************************************************************************)
(* update_shards and main of preprocess_gisaid.py                          *)
(***************************************************************************)
LinePool == {"a", "b"}

\* All sequences over S of length at most n.
SeqsUpTo(S, n) == UNION { [1..k -> S] : k \in 0..n }

\* main: f"results/gisaid.{i:03d}-of-{args.num_shards:03d}.json" for i in
\* range(args.num_shards): the name is determined by the two numbers.
shard_names(n) == [j \in 1..n |-> <<j - 1, n>>]

\* A split that starts counting the shards at line 1.
shard_of_next(i, n) == (i + 1) % n

\* update_shards: the shard that gets line i.
shard_of(i, n) == i % n

\* The program is started on an input file, in an empty results directory.
NewShards(lines, n, force) ==
    /\ s_lines = lines
    /\ s_num_shards = n
    /\ s_force = force
    /\ s_disk = <<>>
    /\ s_i = None
    /\ s_pc = "main"
    /\ s_written = [k \in 1..Len(lines) |-> {}]

\* main: the shards are rewritten when forced or when one of them is
\* missing; update_shards then opens the input and every shard for writing.
MainShards ==
    /\ s_pc = "main"
    /\ LET names == shard_names(s_num_shards)
       IN IF s_force \/ ~(\A j \in 1..s_num_shards : names[j] \in DOMAIN s_disk)
          THEN /\ s_disk' = [nm \in { names[j] : j \in 1..s_num_shards } |-> <<>>] @@ s_disk
               /\ s_pc' = "loop"
          ELSE /\ s_pc' = "get_stats"
               /\ UNCHANGED s_disk
    /\ UNCHANGED <<s_lines, s_num_shards, s_force, s_i, s_written>>
    /\ UNCHANGED notShardVars

\* update_shards: one iteration of `for i, line in enumerate(f)`.
ShardLine ==
    /\ s_pc = "loop"
    /\ LET i == IF s_i = None THEN 0 ELSE s_i[1] + 1
           names == shard_names(s_num_shards)
       IN /\ i < Len(s_lines)
          /\ s_i' = Some(i)
          /\ LET shard == shard_of(i, s_num_shards)
             IN /\ s_disk' = [s_disk EXCEPT ![names[shard + 1]] = Append(@, s_lines[i + 1])]
                /\ s_written' = [s_written EXCEPT ![i + 1] = @ \cup {shard}]
    /\ UNCHANGED <<s_lines, s_num_shards, s_force, s_pc>>
    /\ UNCHANGED notShardVars

\* update_shards: the input is exhausted, the files are closed, and
\* logger.info(f"split {i + 1} lines") reads i, which is unbound when the
\* input had no line.
ShardsClose ==
    /\ s_pc = "loop"
    /\ (IF s_i = None THEN 0 ELSE s_i[1] + 1) = Len(s_lines)
    /\ s_pc' = IF s_i = None THEN "raised" ELSE "get_stats"
    /\ UNCHANGED <<s_lines, s_num_shards, s_force, s_disk, s_i, s_written>>
    /\ UNCHANGED notShardVars

NextShards ==
    \/ MainShards
    \/ ShardLine
    \/ ShardsClose

(***************************************************************************)
(* mutrans.py: cache filenames                                             *)
(*                                                                         *)
(* A Python string is a tuple of pieces; a piece is one character, or a    *)
(* run of characters that is never taken apart (a word of [A-Za-x0-9_-],   *)
(* which _safe_str leaves as it is, or a literal of the format strings).   *)
(* A positional argument carries its Python type.                          *)
(***************************************************************************)
PyStr(pieces) == [t |-> "str", v |-> pieces]
PyInt(n) == [t |-> "int", v |-> n]
PyFloat(literal) == [t |-> "float", v |-> literal]
PyTuple(items) == [t |-> "tuple", v |-> items]

Upper == {"A", "B", "C", "D", "E", "F", "G", "H", "I", "J", "K", "L", "M",
          "N", "O", "P", "Q", "R", "S", "T", "U", "V", "W", "X", "Y", "Z"}
LowerAToX == {"a", "b", "c", "d", "e", "f", "g", "h", "i", "j", "k", "l", "m",
              "n", "o", "p", "q", "r", "s", "t", "u", "v", "w", "x"}
Digits == {"0", "1", "2", "3", "4", "5", "6", "7", "8", "9"}

\* Runs of characters of [A-Za-x0-9_-] that the strings below are built of.
KeptWords == {"location", "virus_name", "include", "exclude", "Europe", "United",
              "Kingdom", "North", "America", "USA", "hCoV", "19", "CDC"}

RECURSIVE Join(_, _)
\* sep.join(parts)
Join(parts, sep) ==
    IF parts = <<>> THEN <<>>
    ELSE IF Len(parts) = 1 THEN parts[1]
    ELSE parts[1] \o sep \o Join(Tail(parts), sep)

\* sorted(d) for the keys the dicts of this program have.
KeyOrder == <<"exclude", "include", "location", "virus_name">>

\* sorted(d.items()): the pairs <<k, d[k]>> in the order of their keys.
sorted_items(d) ==
    LET keys == SelectSeq(KeyOrder, LAMBDA k : k \in DOMAIN d)
    IN [j \in 1..Len(keys) |-> <<keys[j], d[keys[j]]>>]

\* repr of a str without quotes or backslashes in it.
repr_str(pieces) == <<"'">> \o pieces \o <<"'">>

\* repr of a tuple of (key, pattern) pairs, as tuple(sorted(v.items())) is.
repr_pairs(items) ==
    LET pair(j) == <<"(">> \o repr_str(<<items[j][1]>>) \o <<",", " ">>
                   \o repr_str(items[j][2]) \o <<")">>
        inner == Join([j \in 1..Len(items) |-> pair(j)], <<",", " ">>)
    IN IF Len(items) = 1 THEN <<"(">> \o inner \o <<",", ")">>
       ELSE <<"(">> \o inner \o <<")">>

\* str(v)
str(v) ==
    CASE v.t = "str" -> v.v
      [] v.t = "int" -> <<ToString(v.v)>>
      [] v.t = "float" -> <<v.v>>
      [] v.t = "tuple" -> repr_pairs(v.v)

\* re.sub("[^A-Za-x0-9-]", "_", v) on one piece.
safe_piece(piece) ==
    IF piece \in KeptWords \cup Upper \cup LowerAToX \cup Digits \cup {"-"}
    THEN piece ELSE "_"

\* _safe_str(v)
safe_str(v) == [j \in 1..Len(str(v)) |-> safe_piece(str(v)[j])]

\* kwargs.get(name, {})
get(kwargs, name) == IF name \in DOMAIN kwargs THEN kwargs[name] ELSE <<>>

\* _load_data_filename(args, **kwargs)
load_data_filename(args, kwargs) ==
    LET inc == sorted_items(get(kwargs, "include"))
        exc == sorted_items(get(kwargs, "exclude"))
        parts == <<<<"data">>, str(PyInt(args.max_feature_order))>>
                 \o [j \in 1..Len(inc) |-> <<"I", inc[j][1], "=">> \o safe_str(PyStr(inc[j][2]))]
                 \o [j \in 1..Len(exc) |-> <<"E", exc[j][1], "=">> \o safe_str(PyStr(exc[j][2]))]
    IN <<"results/mutrans.">> \o Join(parts, <<".">>) \o <<".pt">>

\* _fit_filename(name, *args): `positional` is args, the call's positional
\* arguments (args, dataset, ...); the first two are skipped.
fit_filename(name, positional) ==
    LET rest == SubSeq(positional, 3, Len(positional))
        one(arg) == IF arg.t = "tuple"
                    THEN Join([j \in 1..Len(arg.v) |->
                                 <<arg.v[j][1], "=">> \o safe_str(PyTuple(arg.v[j][2]))],
                              <<"-">>)
                    ELSE str(arg)
        strs == <<<<name>>>> \o [j \in 1..Len(rest) |-> one(rest[j])]
    IN <<"results/mutrans.">> \o Join(strs, <<".">>) \o <<".pt">>

\* The patterns of main's holdouts, and one more that a user may write.
PatUK == <<"^", "Europe", " ", "/", " ", "United", " ", "Kingdom">>
PatUSA == <<"^", "North", " ", "America", " ", "/", " ", "USA">>
PatCDC == <<"^", "hCoV", "-", "19", "/", "USA", "/", ".", ".", "-", "CDC", "-">>
PatCDC2 == <<"^", "hCoV", "-", "19", "/", "USA", "/", ".", ".", "-", "CDC", "-", "2", "-">>
PatCDCStar == <<"^", "hCoV", "-", "19", "/", "USA", "/", ".", "*", "-", "CDC", "-">>

(***************************************************************************)
(* mutrans.py: cached, load_data, fit_svi, fit_mcmc                        *)
(*                                                                         *)
(* A computed value is described by what it was computed from. The device  *)
(* a tensor lives on is not part of the description.                       *)
(***************************************************************************)
\* torch.save / torch.load: the pickled value, and the value read back.
torch_save(value) == [pickle |-> value]
torch_load(contents) == contents.pickle

\* What a call leaves behind: the files, the value returned, and the cached
\* calls made, innermost first.
Outcome(disk, result, events) == [disk |-> disk, result |-> result, events |-> events]

stored(disk, f) == IF f \in DOMAIN disk THEN Some(disk[f]) ELSE None

\* One cached call: the function and its arguments, the file they resolve
\* to and its contents before and after the call, how often the wrapped
\* function ran, and the value returned.
Event(fn, call, f, before, runs, result, after) ==
    [fn |-> fn, call |-> call, file |-> f, before |-> before, runs |-> runs,
     result |-> result, after |-> after]

\* A decorator that calls the wrapped function even when the file exists.
cached_always(disk, fn, call, f, body) ==
    LET saved == (f :> torch_save(body.result)) @@ body.disk
    IN Outcome(saved, body.result,
               body.events \o << Event(fn, call, f, stored(disk, f), 1, body.result,
                                       stored(saved, f)) >>)

\* cached(filename)(fn)(*args): `f` is the filename the arguments `call`
\* resolve to, `body` is what running fn(*args) on `disk` leaves behind.
cached(disk, fn, call, f, body) ==
    IF f \notin DOMAIN disk
    THEN LET saved == (f :> torch_save(body.result)) @@ body.disk
         IN Outcome(saved, body.result,
                    body.events \o << Event(fn, call, f, stored(disk, f), 1, body.result,
                                            stored(saved, f)) >>)
    ELSE Outcome(disk, torch_load(disk[f]),
                 << Event(fn, call, f, stored(disk, f), 0, torch_load(disk[f]),
                          stored(disk, f)) >>)

\* mutrans.load_gisaid_data(max_feature_order=..., device=..., **kwargs)
load_gisaid_data(max_feature_order, kwargs) ==
    [fn |-> "load_gisaid_data", max_feature_order |-> max_feature_order, kwargs |-> kwargs]

\* load_data(args, **kwargs)
load_data(disk, args, kwargs) ==
    cached(disk, "load_data", [args |-> args, kwargs |-> kwargs],
           load_data_filename(args, kwargs),
           Outcome(disk, load_gisaid_data(args.max_feature_order, kwargs), <<>>))

\* The parameter at position j of the positional arguments after (args,
\* dataset), or its default.
Param(rest, j, default) == IF Len(rest) >= j THEN rest[j] ELSE default

\* fit_svi(args, dataset, *rest); `now` stands for the timer readings that
\* make up result["walltime"].
fit_svi(disk, now, args, dataset, rest) ==
    cached(disk, "fit_svi", [args |-> args, dataset |-> dataset, rest |-> rest],
           fit_filename("svi", <<args, dataset>> \o rest),
           Outcome(disk,
                   [fn |-> "fit_svi",
                    dataset |-> dataset,
                    guide_type |-> Param(rest, 1, PyStr(<<"mvn_dependent">>)),
                    num_steps |-> Param(rest, 2, PyInt(1001)),
                    learning_rate |-> Param(rest, 3, PyFloat("0.01")),
                    learning_rate_decay |-> Param(rest, 4, PyFloat("0.1")),
                    seed |-> args.seed,
                    walltime |-> now,
                    args |-> args],
                   <<>>))

\* fit_mcmc(args, dataset, *rest)
fit_mcmc(disk, now, args, dataset, rest) ==
    LET svi == fit_svi(disk, now, args, dataset,
                       << PyStr(<<"mvn_dependent">>),
                          Param(rest, 2, PyInt(10001)),
                          PyFloat("0.01"),
                          PyFloat("0.1"),
                          Param(rest, 6, PyTuple(<<>>)) >>)
    IN cached(disk, "fit_mcmc", [args |-> args, dataset |-> dataset, rest |-> rest],
              fit_filename("mcmc", <<args, dataset>> \o rest),
              Outcome(svi.disk,
                      [fn |-> "fit_mcmc",
                       dataset |-> dataset,
                       svi_params |-> svi.result,
                       model_type |-> Param(rest, 1, PyStr(<<"dependent">>)),
                       num_warmup |-> Param(rest, 3, PyInt(1000)),
                       num_samples |-> Param(rest, 4, PyInt(1000)),
                       max_tree_depth |-> Param(rest, 5, PyInt(10)),
                       seed |-> args.seed,
                       walltime |-> now,
                       args |-> args],
                      svi.events))

(***************************************************************************)
(* mutrans.py: main                                                        *)
(***************************************************************************)
\* The parsed command line, with argparse's defaults; floats by their repr.
DefaultArgs ==
    [mcmc |-> FALSE, svi |-> FALSE, max_feature_order |-> 0,
     guide_type |-> "mvn_dependent", model_type |-> "dependent", num_steps |-> 10001,
     learning_rate |-> "0.01", learning_rate_decay |-> "0.1", num_warmup |-> 1000,
     num_samples |-> 1000, max_tree_depth |-> 10, seed |-> 20210319, log_every |-> 50]

\* The command lines tried: --mcmc with two seeds and two model types, and
\* once with another feature order; --svi and the full run with two seeds;
\* --mcmc together with --svi.
ArgsPool ==
    { [DefaultArgs EXCEPT !.mcmc = TRUE, !.seed = sd, !.model_type = mt] :
        sd \in {20210319, 1}, mt \in {"dependent", "naive"} }
    \cup { [DefaultArgs EXCEPT !.mcmc = TRUE, !.max_feature_order = 1],
           [DefaultArgs EXCEPT !.mcmc = TRUE, !.svi = TRUE] }
    \cup { [DefaultArgs EXCEPT !.svi = sv, !.seed = sd] :
        sv \in BOOLEAN, sd \in {20210319, 1} }

ResultsPt == <<"results/mutrans.pt">>

\* main: the positional arguments of the fit_mcmc call of --mcmc, after
\* (args, dataset), with the default model type in place of args.model_type.
mcmc_rest_default(args) ==
    << PyStr(<<"dependent">>), PyInt(args.num_steps), PyInt(args.num_warmup),
       PyInt(args.num_samples), PyInt(args.max_tree_depth) >>

\* main: the positional arguments of the fit_mcmc call of --mcmc, after
\* (args, dataset).
mcmc_rest(args) ==
    << PyStr(<<args.model_type>>), PyInt(args.num_steps), PyInt(args.num_warmup),
       PyInt(args.num_samples), PyInt(args.max_tree_depth) >>

\* main: svi_config
svi_config(args) ==
    << PyStr(<<args.guide_type>>), PyInt(args.num_steps), PyFloat(args.learning_rate),
       PyFloat(args.learning_rate_decay) >>

\* main: inference_configs
inference_configs(args) ==
    LET mcmc(model_type) ==
            << PyStr(<<"mcmc">>), PyStr(<<model_type>>), PyInt(args.num_steps),
               PyInt(args.num_warmup), PyInt(args.num_samples), PyInt(args.max_tree_depth) >>
        svi(guide_type, n, lr, lrd) ==
            << PyStr(<<guide_type>>), PyInt(n), PyFloat(lr), PyFloat(lrd) >>
    IN << svi_config(args),
          mcmc("naive"), mcmc("dependent"), mcmc("conditioned"), mcmc("preconditioned"),
          svi("map", 1001, "0.05", "1.0"),
          svi("normal_delta", 2001, "0.05", "0.1"),
          svi("normal", 2001, "0.05", "0.1"),
          svi("mvn_delta", 10001, "0.01", "0.1"),
          svi("mvn_normal", 10001, "0.01", "0.1"),
          svi("mvn_delta_dependent", 10001, "0.01", "0.1"),
          svi("mvn_normal_dependent", 10001, "0.01", "0.1") >>

\* main: holdouts
holdouts ==
    << ("exclude" :> ("location" :> PatUK)),
       ("exclude" :> ("location" :> PatUSA)),
       ("include" :> ("location" :> PatUK)),
       ("include" :> ("location" :> PatUSA)),
       ("include" :> ("virus_name" :> PatCDC)),
       ("include" :> ("virus_name" :> PatCDC2)) >>

\* tuple((k, tuple(sorted(v.items()))) for k, v in sorted(holdout.items()))
holdout_tuple(holdout) ==
    LET outer == sorted_items(holdout)
    IN [j \in 1..Len(outer) |-> <<outer[j][1], sorted_items(outer[j][2])>>]

\* dict(pairs)
dict(pairs) ==
    [k \in { pairs[j][1] : j \in 1..Len(pairs) } |->
        pairs[CHOOSE j \in 1..Len(pairs) :
                 /\ pairs[j][1] = k
                 /\ \A i \in (j + 1)..Len(pairs) : pairs[i][1] # k][2]]

\* {k: dict(v) for k, v in config[-1]}
holdout_dict(config) ==
    LET items == config[Len(config)].v
    IN [k \in { items[j][1] : j \in 1..Len(items) } |->
          dict(items[CHOOSE j \in 1..Len(items) : items[j][1] = k][2])]

\* main: configs
configs(args) ==
    LET inference == inference_configs(args)
    IN [j \in 1..Len(inference) |-> Append(inference[j], PyTuple(<<>>))]
       \o [j \in 1..Len(holdouts) |->
             Append(svi_config(args), PyTuple(holdout_tuple(holdouts[j])))]

\* The per-file history, brought up to date with the cached calls `events`.
RECURSIVE tally(_, _)
tally(t, events) ==
    IF events = <<>> THEN t
    ELSE LET e == Head(events)
             old == IF e.file \in DOMAIN t THEN t[e.file] ELSE [runs |-> 0, returned |-> {}]
         IN tally((e.file :> [runs |-> old.runs + e.runs,
                              returned |-> old.returned \cup {e.result}]) @@ t,
                  Tail(events))

\* The files, and the histories, after a call that left `out` behind.
Effect(out) ==
    /\ c_disk' = out.disk
    /\ c_events' = c_events \o out.events
    /\ c_tally' = tally(c_tally, out.events)

\* No process of mutrans.py has run; results/ holds no file.
NewMain ==
    /\ c_disk = <<>>
    /\ c_args = None
    /\ c_pc = "exited"
    /\ c_dataset = None
    /\ c_result = <<>>
    /\ c_k = 0
    /\ c_runs = 0
    /\ c_events = <<>>
    /\ c_disk0 = <<>>
    /\ c_tally = <<>>

\* main(args): the branch taken.
StartMain(args) ==
    /\ c_pc = "exited"
    /\ c_runs < MaxRuns
    /\ c_runs' = c_runs + 1
    /\ c_args' = Some(args)
    /\ c_pc' = IF args.mcmc THEN "mcmc_load_data"
               ELSE IF args.svi THEN "svi_load_data" ELSE "loop"
    /\ c_dataset' = None
    /\ c_result' = <<>>
    /\ c_k' = 1
    /\ c_events' = <<>>
    /\ c_disk0' = c_disk
    /\ UNCHANGED <<c_disk, c_tally>>
    /\ UNCHANGED notMainVars

\* main --mcmc: dataset = load_data(args)
McmcLoadData ==
    /\ c_pc = "mcmc_load_data"
    /\ LET out == load_data(c_disk, c_args[1], <<>>)
       IN /\ Effect(out)
          /\ c_dataset' = Some(out.result)
    /\ c_pc' = "mcmc_fit"
    /\ UNCHANGED <<c_args, c_result, c_k, c_runs, c_disk0>>
    /\ UNCHANGED notMainVars

\* main --mcmc: fit_mcmc(args, dataset, args.model_type, ...); return
McmcFit ==
    /\ c_pc = "mcmc_fit"
    /\ Effect(fit_mcmc(c_disk, c_runs, c_args[1], c_dataset[1], mcmc_rest(c_args[1])))
    /\ c_pc' = "exited"
    /\ UNCHANGED <<c_args, c_dataset, c_result, c_k, c_runs, c_disk0>>
    /\ UNCHANGED notMainVars

\* main --svi: dataset = load_data(args)
SviLoadData ==
    /\ c_pc = "svi_load_data"
    /\ LET out == load_data(c_disk, c_args[1], <<>>)
       IN /\ Effect(out)
          /\ c_dataset' = Some(out.result)
    /\ c_pc' = "svi_fit"
    /\ UNCHANGED <<c_args, c_result, c_k, c_runs, c_disk0>>
    /\ UNCHANGED notMainVars

\* main --svi: fit_svi(args, dataset, *svi_config); return
SviFit ==
    /\ c_pc = "svi_fit"
    /\ Effect(fit_svi(c_disk, c_runs, c_args[1], c_dataset[1], svi_config(c_args[1])))
    /\ c_pc' = "exited"
    /\ UNCHANGED <<c_args, c_dataset, c_result, c_k, c_runs, c_disk0>>
    /\ UNCHANGED notMainVars

\* result[config] = value
setitem(result, config, value) ==
    IF \E j \in 1..Len(result) : result[j][1] = config
    THEN [j \in 1..Len(result) |->
            IF result[j][1] = config THEN <<config, value>> ELSE result[j]]
    ELSE Append(result, <<config, value>>)

\* main: one iteration of `for config in configs`.
FitConfig ==
    /\ c_pc = "loop"
    /\ c_k <= Len(configs(c_args[1]))
    /\ LET args == c_args[1]
           config == configs(args)[c_k]
           data == load_data(c_disk, args, holdout_dict(config))
           dataset == data.result
           fit == IF config[1] = PyStr(<<"mcmc">>)
                  THEN fit_mcmc(data.disk, c_runs, args, dataset, Tail(config))
                  ELSE fit_svi(data.disk, c_runs, args, dataset, config)
           entry == ("mutations" :> [mutations_of |-> dataset]) @@ fit.result
       IN /\ Effect(Outcome(fit.disk, fit.result, data.events \o fit.events))
          /\ c_dataset' = Some(dataset)
          /\ c_result' = setitem(c_result, config, entry)
    /\ c_k' = c_k + 1
    /\ UNCHANGED <<c_args, c_pc, c_runs, c_disk0>>
    /\ UNCHANGED notMainVars

\* main: torch.save(result, "results/mutrans.pt"); return
SaveResults ==
    /\ c_pc = "loop"
    /\ c_k > Len(configs(c_args[1]))
    /\ c_disk' = (ResultsPt :> torch_save(c_result)) @@ c_disk
    /\ c_events' = Append(c_events,
                          Event("main", None, ResultsPt, stored(c_disk, ResultsPt), 0,
                                c_result, stored(c_disk', ResultsPt)))
    /\ c_pc' = "exited"
    /\ UNCHANGED <<c_args, c_dataset, c_result, c_k, c_runs, c_disk0, c_tally>>
    /\ UNCHANGED notMainVars

NextMain ==
    \/ \E args \in ArgsPool : StartMain(args)
    \/ McmcLoadData
    \/ McmcFit
    \/ SviLoadData
    \/ SviFit
    \/ FitConfig
    \/ SaveResults

(***************************************************************************)
(* mutrans.py: the filenames two calls resolve to                          *)
(***************************************************************************)
\* The holdout filters tried: those of main and one with another pattern.
DictPool ==
    { ("location" :> PatUK), ("location" :> PatUSA), ("virus_name" :> PatCDC),
      ("virus_name" :> PatCDC2), ("virus_name" :> PatCDCStar) }

KwargsPool ==
    {<<>>} \cup { ("include" :> d) : d \in DictPool } \cup { ("exclude" :> d) : d \in DictPool }
    \cup { ("include" :> d) @@ ("exclude" :> e) : d, e \in {("location" :> PatUK), ("virus_name" :> PatCDC)} }

\* The arguments of a load_data call.
LoadDataCalls ==
    { [args |-> [DefaultArgs EXCEPT !.max_feature_order = o], kwargs |-> kw] :
        o \in {0, 1}, kw \in KwargsPool }

\* The arguments of a fit_svi call: args, dataset and the rest.
FitSviCalls ==
    { [args |-> [DefaultArgs EXCEPT !.seed = sd, !.max_feature_order = o],
       dataset |-> load_gisaid_data(o, kw),
       rest |-> << PyStr(<<g>>), PyInt(n), PyFloat(lr), PyFloat("0.1"),
                   PyTuple(holdout_tuple(kw)) >>] :
        sd \in {20210319, 1}, o \in {0, 1},
        kw \in {<<>>, ("exclude" :> ("location" :> PatUK))},
        g \in {"mvn_dependent", "map"}, n \in {1001, 10001}, lr \in {"0.01", "0.05"} }

\* The arguments of a fit_mcmc call.
FitMcmcCalls ==
    { [args |-> [DefaultArgs EXCEPT !.seed = sd, !.max_feature_order = o],
       dataset |-> load_gisaid_data(o, kw),
       rest |-> << PyStr(<<mt>>), PyInt(n), PyInt(1000), PyInt(1000), PyInt(10),
                   PyTuple(holdout_tuple(kw)) >>] :
        sd \in {20210319, 1}, o \in {0, 1},
        kw \in {<<>>, ("exclude" :> ("location" :> PatUK))},
        mt \in {"dependent", "naive"}, n \in {1001, 10001} }

\* Two calls of one of the cached functions are about to be made.
NewNames(kind, a, b) ==
    /\ n_kind = kind
    /\ n_a = a
    /\ n_b = b
    /\ n_file_a = None
    /\ n_file_b = None

\* cached_fn: f = filename(*args, **kwargs), for load_data.
ResolveLoadData ==
    /\ n_kind = "load_data"
    /\ n_file_a = None
    /\ n_file_a' = Some(load_data_filename(n_a.args, n_a.kwargs))
    /\ n_file_b' = Some(load_data_filename(n_b.args, n_b.kwargs))
    /\ UNCHANGED <<n_kind, n_a, n_b>>
    /\ UNCHANGED notNameVars

\* cached_fn: f = filename(*args, **kwargs), for fit_svi.
ResolveFitSvi ==
    /\ n_kind = "fit_svi"
    /\ n_file_a = None
    /\ n_file_a' = Some(fit_filename("svi", <<n_a.args, n_a.dataset>> \o n_a.rest))
    /\ n_file_b' = Some(fit_filename("svi", <<n_b.args, n_b.dataset>> \o n_b.rest))
    /\ UNCHANGED <<n_kind, n_a, n_b>>
    /\ UNCHANGED notNameVars

\* cached_fn: f = filename(*args, **kwargs), for fit_mcmc.
ResolveFitMcmc ==
    /\ n_kind = "fit_mcmc"
    /\ n_file_a = None
    /\ n_file_a' = Some(fit_filename("mcmc", <<n_a.args, n_a.dataset>> \o n_a.rest))
    /\ n_file_b' = Some(fit_filename("mcmc", <<n_b.args, n_b.dataset>> \o n_b.rest))
    /\ UNCHANGED <<n_kind, n_a, n_b>>
    /\ UNCHANGED notNameVars

NextNames ==
    \/ ResolveLoadData
    \/ ResolveFitSvi
    \/ ResolveFitMcmc

(***************************************************************************)
(* pyrophylo/strains.py: TimeSpaceStrainModel.__init__                     *)
(*                                                                         *)
(* A tensor is known by its shape (a tuple of sizes) or, for the integer   *)
(* vectors, by its elements; indices count from 0 as in the source. The    *)
(* result of a tensor operation also records whose storage it lives in.    *)
(***************************************************************************)
\* x.max().item() of a nonempty integer vector.
max(x) == CHOOSE v \in { x[j] : j \in 1..Len(x) } : \A j \in 1..Len(x) : x[j] <= v

\* An in-place clamp: x.clamp_(max=hi) works on the storage of x itself.
clamp_(x, owner, hi) ==
    [data |-> [j \in 1..Len(x) |-> IF x[j] > hi THEN hi ELSE x[j]], storage |-> owner]

\* x.clamp(max=hi): a new tensor.
clamp(x, owner, hi) ==
    [data |-> [j \in 1..Len(x) |-> IF x[j] > hi THEN hi ELSE x[j]], storage |-> "new"]

\* x.mul_(k), in place.
mul_(x, k) == [x EXCEPT !.data = [j \in 1..Len(x.data) |-> x.data[j] * k]]

\* x.add_(y), in place.
add_(x, y) == [x EXCEPT !.data = [j \in 1..Len(x.data) |-> x.data[j] + y[j]]]

\* torch.zeros(n), flat.
zeros(n) == [k \in 1..n |-> 0]

\* flat.scatter_add_(0, index, one): every element of index adds one to the
\* cell it names.
scatter_add_(flat, index) ==
    [k \in 1..Len(flat) |->
        flat[k] + Cardinality({ j \in 1..Len(index) : index[j] = k - 1 })]

\* A flat tensor seen with shape (T, Rc, S), row-major.
reshape(flat, T, Rc, S) ==
    [t \in 1..T |-> [r \in 1..Rc |-> [s \in 1..S |->
        flat[((t - 1) * Rc + (r - 1)) * S + s]]]]

RECURSIVE Sum(_)
Sum(row) == IF row = <<>> THEN 0 ELSE Head(row) + Sum(Tail(row))

\* strain_data.sum(-1)
sum_last(data) == [t \in 1..Len(data) |-> [r \in 1..Len(data[t]) |-> Sum(data[t][r])]]

\* x[mask] for a (T, Rc) mask: the entries of x where the mask is set, in
\* row-major order.
RECURSIVE masked(_, _, _, _)
masked(x, mask, t, r) ==
    IF t > Len(mask) THEN <<>>
    ELSE IF r > Len(mask[t]) THEN masked(x, mask, t + 1, 1)
    ELSE (IF mask[t][r] THEN <<x[t][r]>> ELSE <<>>) \o masked(x, mask, t, r + 1)

\* The numbers of regions tried.
RegionCounts == {1, 2}

\* The coarse sampling regions and the strains a sample may be classified as.
SampleRegions == {0, 1}
SampleStrains == {0, 1}

\* One genetic sample: its time, region and strain.
Samples(T) == [time : 0..T, region : SampleRegions, strain : SampleStrains]

\* The ways the arguments of a call depart from a well-shaped call with
\* (R, R, P)-shaped transit data and no population.
Variants == {"plain", "documented_transit", "negative_transit", "with_population",
             "documented_transit_with_population", "short_sample_region"}

\* The arguments of TimeSpaceStrainModel(...): the shapes of the float
\* tensors, the least transit value, and the three sample vectors.
Arguments(T, R, samples, variant) ==
    LET time == [j \in 1..Len(samples) |-> samples[j].time]
        region == [j \in 1..Len(samples) |-> samples[j].region]
        strain == [j \in 1..Len(samples) |-> samples[j].strain]
        documented == variant \in {"documented_transit",
                                   "documented_transit_with_population"}
        populated == variant \in {"with_population",
                                  "documented_transit_with_population"}
    IN [case_data |-> <<T, R>>,
        death_data |-> <<T, R>>,
        transit_data |-> IF documented THEN <<T, R, R, 1>> ELSE <<R, R, 1>>,
        transit_min |-> IF variant = "negative_transit" THEN -1 ELSE 0,
        sample_time |-> time,
        sample_region |-> IF variant = "short_sample_region" /\ region # <<>>
                          THEN Tail(region) ELSE region,
        sample_strain |-> strain,
        sample_matrix |-> IF samples = <<>> THEN <<1, R>> ELSE <<1 + max(region), R>>,
        mutation_matrix |-> IF samples = <<>> THEN <<1, 1>>
                            ELSE <<1 + max(strain), 1 + max(strain)>>,
        death_rate |-> [type |-> "float", positive |-> TRUE, below_one |-> TRUE],
        population |-> IF populated THEN Some(<<R>>) ELSE None]

\* The call has been made and nothing of __init__ has run.
NewModel(arguments) ==
    /\ m_in = arguments
    /\ m_pc = "assert"
    /\ m_err = None
    /\ m_sample_time = arguments.sample_time
    /\ m_sample_region = arguments.sample_region
    /\ m_sample_strain = arguments.sample_strain
    /\ m_counts = <<>>
    /\ m_strain_mask = <<>>
    /\ m_strain_data = <<>>
    /\ m_strain_total = <<>>
    /\ m_self = None

Raised(line, exception) == Some([line |-> line, exception |-> exception])

\* The first statement of lines 125-141 that raises, or None.
first_failure(a) ==
    LET T == a.case_data[1]
        R == a.case_data[2]
        P == a.transit_data[Len(a.transit_data)]
        N == Len(a.sample_time)
    IN IF a.death_data # <<T, R>> THEN Raised(126, "AssertionError")
       ELSE IF a.population # None /\ a.population[1] # <<R>>
            THEN Raised(128, "AssertionError")
       ELSE IF a.transit_data # <<R, R, P>> THEN Raised(130, "AssertionError")
       ELSE IF ~(a.death_rate.type = "float" /\ a.death_rate.positive
                 /\ a.death_rate.below_one)
            THEN Raised(131, "AssertionError")
       ELSE IF ~(a.transit_min >= 0) THEN Raised(132, "AssertionError")
       ELSE IF N = 0 THEN Raised(134, "RuntimeError")
       ELSE IF ~(max(a.sample_time) <= T) THEN Raised(134, "AssertionError")
       ELSE IF Len(a.sample_region) # N THEN Raised(136, "AssertionError")
       ELSE IF Len(a.sample_strain) # N THEN Raised(137, "AssertionError")
       ELSE IF a.sample_matrix # <<1 + max(a.sample_region), R>>
            THEN Raised(140, "AssertionError")
       ELSE IF a.mutation_matrix # <<1 + max(a.sample_strain), 1 + max(a.sample_strain)>>
            THEN Raised(141, "AssertionError")
       ELSE None

\* __init__, lines 125-141: the shapes and the assertions.
CheckArguments ==
    /\ m_pc = "assert"
    /\ m_err' = first_failure(m_in)
    /\ m_pc' = IF first_failure(m_in) = None THEN "aggregate" ELSE "raised"
    /\ UNCHANGED <<m_in, m_sample_time, m_sample_region, m_sample_strain, m_counts,
                   m_strain_mask, m_strain_data, m_strain_total, m_self>>
    /\ UNCHANGED notStrainVars

\* __init__, lines 143-152: the samples are counted into strain_data, and
\* the buckets without a sample are dropped.
Aggregate ==
    /\ m_pc = "aggregate"
    /\ LET T == m_in.case_data[1]
           S == 1 + max(m_sample_strain)
           Rc == 1 + max(m_sample_region)
           i == add_(mul_(add_(mul_(clamp(m_sample_time, "sample_time", T - 1), Rc),
                               m_sample_region), S),
                     m_sample_strain)
           in_range == \A j \in 1..Len(i.data) : i.data[j] \in 0..(T * Rc * S - 1)
           strain_data == reshape(scatter_add_(zeros(T * Rc * S), i.data), T, Rc, S)
           strain_total == sum_last(strain_data)
           strain_mask == [t \in 1..T |-> [r \in 1..Rc |-> strain_total[t][r] > 0]]
       IN /\ m_sample_time' = IF i.storage = "sample_time" THEN i.data ELSE m_sample_time
          /\ IF in_range
             THEN /\ m_counts' = strain_data
                  /\ m_strain_mask' = strain_mask
                  /\ m_strain_data' = masked(strain_data, strain_mask, 1, 1)
                  /\ m_strain_total' = masked(strain_total, strain_mask, 1, 1)
                  /\ m_pc' = "register"
                  /\ m_err' = None
             ELSE /\ UNCHANGED <<m_counts, m_strain_mask, m_strain_data, m_strain_total>>
                  /\ m_pc' = "raised"
                  /\ m_err' = Raised(148, "RuntimeError")
    /\ UNCHANGED <<m_in, m_sample_region, m_sample_strain, m_self>>
    /\ UNCHANGED notStrainVars

\* __init__, lines 154-175: the sizes and the buffers are set on self.
RegisterBuffers ==
    /\ m_pc = "register"
    /\ m_self' = Some([num_time_steps |-> m_in.case_data[1],
                       num_regions |-> m_in.case_data[2],
                       num_coarse_regions |-> 1 + max(m_sample_region),
                       num_strains |-> 1 + max(m_sample_strain),
                       num_transit_covariates |-> m_in.transit_data[Len(m_in.transit_data)],
                       population |-> IF m_in.population = None THEN None
                                      ELSE Some(m_in.population[1] \o <<1>>),
                       strain_mask |-> m_strain_mask,
                       strain_data |-> m_strain_data,
                       strain_total |-> m_strain_total])
    /\ m_pc' = "done"
    /\ UNCHANGED <<m_in, m_err, m_sample_time, m_sample_region, m_sample_strain, m_counts,
                   m_strain_mask, m_strain_data, m_strain_total>>
    /\ UNCHANGED notStrainVars

NextStrains ==
    \/ CheckArguments
    \/ Aggregate
    \/ RegisterBuffers

(***************************************************************************)
(* pyrocov/mutrans.py: load_data, lines 28-84                              *)
(*                                                                         *)
(* Strings are tuples of pieces as above: "/" and " " are pieces of their  *)
(* own, the words between them are never taken apart.                      *)
(***************************************************************************)
TIMESTEP == 14

\* str.split(sep): the parts between the occurrences of the piece sep.
RECURSIVE split(_, _)
split(string, sep) ==
    IF \A j \in 1..Len(string) : string[j] # sep THEN <<string>>
    ELSE LET k == CHOOSE j \in 1..Len(string) :
                     string[j] = sep /\ \A i \in 1..(j - 1) : string[i] # sep
         IN <<SubSeq(string, 1, k - 1)>> \o split(SubSeq(string, k + 1, Len(string)), sep)

\* str.strip()
RECURSIVE strip(_)
strip(string) ==
    IF string = <<>> THEN string
    ELSE IF Head(string) = " " THEN strip(Tail(string))
    ELSE IF string[Len(string)] = " " THEN strip(SubSeq(string, 1, Len(string) - 1))
    ELSE string

\* pattern.search(string) for a pattern without special characters.
search(pattern, string) ==
    \E k \in 0..(Len(string) - Len(pattern)) :
        SubSeq(string, k + 1, k + Len(pattern)) = pattern

\* pangolin.compress: a lineage under its shortest alias.
compress(lineage) == IF lineage = "B.1.1.28.1" THEN "P.1" ELSE lineage

\* lineage_id = {k: i for i, k in enumerate(lineage_id_inv)}: the last
\* position of a lineage wins.
lineage_id(inv) ==
    [k \in { inv[j] : j \in 1..Len(inv) } |->
        (CHOOSE j \in 1..Len(inv) :
            inv[j] = k /\ \A i \in (j + 1)..Len(inv) : inv[i] # k) - 1]

\* Lines 66-72: the location cut to two parts, or to three in the USA and
\* the United Kingdom, stripped and joined again.
normalize(location) ==
    LET parts == split(location, "/")
        three == [j \in 1..(IF Len(parts) < 3 THEN Len(parts) ELSE 3) |-> strip(parts[j])]
        kept == IF three[2] \notin {<<"USA">>, <<"United Kingdom">>}
                THEN SubSeq(three, 1, 2) ELSE three
    IN Join(kept, <<" ", "/", " ">>)

\* Lines 59-68: the row is passed over.
skipped(row, ids, virus_name_pattern, location_pattern) ==
    \/ compress(row.lineage) \notin DOMAIN ids
    \/ virus_name_pattern # None /\ ~search(virus_name_pattern[1], row.virus_name)
    \/ location_pattern # None /\ ~search(location_pattern[1], row.location)
    \/ Len(split(row.location, "/")) < 2

\* location_id.setdefault(location, len(location_id))
setdefault(ids, location) ==
    IF \E j \in 1..Len(ids) : ids[j] = location THEN ids ELSE Append(ids, location)

\* The id of a location that is in location_id.
id_of(ids, location) == (CHOOSE j \in 1..Len(ids) : ids[j] = location) - 1

\* A counter that forgets what it had counted for the key.
set_to_one(counter, key) ==
    (key :> 1) @@ counter

\* sparse_data[key] += 1
increment(counter, key) ==
    (key :> (IF key \in DOMAIN counter THEN counter[key] ELSE 0) + 1) @@ counter

\* x // TIMESTEP for a day that is not negative.
floordiv(x, y) == x \div y

USA == <<"North America", " ", "/", " ", "USA", " ", "/", " ", "California">>
USATight == <<"North America", "/", "USA", "/", "California", " ">>
England == <<"Europe", " ", "/", " ", "United Kingdom", " ", "/", " ", "England">>
Hubei == <<"Asia", " ", "/", " ", "China", " ", "/", " ", "Hubei">>
China == <<"Asia", " ", "/", " ", "China">>
Asia == <<"Asia">>

\* The rows tried: two spellings of one place, two names of one lineage, a
\* place cut to its country, a place without a country, a lineage that the
\* feature table does not have.
RowPool ==
    { [virus_name |-> <<"hCoV-19", "/", "USA", "/", "CA-1">>, day |-> 0,
       location |-> USA, lineage |-> "A"],
      [virus_name |-> <<"hCoV-19", "/", "USA", "/", "CA-2">>, day |-> 13,
       location |-> USATight, lineage |-> "A"],
      [virus_name |-> <<"hCoV-19", "/", "England", "/", "1">>, day |-> 14,
       location |-> England, lineage |-> "B.1.1.28.1"],
      [virus_name |-> <<"hCoV-19", "/", "England", "/", "2">>, day |-> 14,
       location |-> England, lineage |-> "P.1"],
      [virus_name |-> <<"hCoV-19", "/", "Wuhan", "/", "1">>, day |-> 29,
       location |-> Hubei, lineage |-> "A"],
      [virus_name |-> <<"hCoV-19", "/", "China", "/", "1">>, day |-> 0,
       location |-> China, lineage |-> "P.1"],
      [virus_name |-> <<"hCoV-19", "/", "Asia", "/", "1">>, day |-> 14,
       location |-> Asia, lineage |-> "A"],
      [virus_name |-> <<"hCoV-19", "/", "USA", "/", "CA-3">>, day |-> 0,
       location |-> USA, lineage |-> "Z.9"] }

\* aa_features["lineages"]: two tables without a repeated lineage, and one
\* that names a lineage twice.
FeatureLineages == { <<"A", "B.1.1.28.1">>, <<"P.1", "B.1.1.28.1", "A">> }

VirusNamePatterns == {None, Some(<<"USA">>)}
LocationPatterns == {None, Some(<<"Europe">>), Some(<<"/", " ", "China">>)}

\* load_data has read its files (lines 35-55).
NewLoad(columns, lineages, virus_name_pattern, location_pattern) ==
    /\ l_columns = columns
    /\ l_lineage_id_inv = [j \in 1..Len(lineages) |-> compress(lineages[j])]
    /\ l_virus_name_pattern = virus_name_pattern
    /\ l_location_pattern = location_pattern
    /\ l_row = 1
    /\ l_sparse_data = <<>>
    /\ l_location_id = <<>>
    /\ l_weekly_strains = None
    /\ l_pc = "rows"

\* One turn of the loop of lines 56-76 for a row that is passed over.
SkipRow ==
    /\ l_pc = "rows"
    /\ l_row <= Len(l_columns)
    /\ skipped(l_columns[l_row], lineage_id(l_lineage_id_inv), l_virus_name_pattern,
               l_location_pattern)
    /\ l_row' = l_row + 1
    /\ UNCHANGED <<l_columns, l_lineage_id_inv, l_virus_name_pattern, l_location_pattern,
                   l_sparse_data, l_location_id, l_weekly_strains, l_pc>>
    /\ UNCHANGED notLoadVars

\* One turn of the loop of lines 56-76 for a row that is counted.
CountRow ==
    /\ l_pc = "rows"
    /\ l_row <= Len(l_columns)
    /\ ~skipped(l_columns[l_row], lineage_id(l_lineage_id_inv), l_virus_name_pattern,
                l_location_pattern)
    /\ LET row == l_columns[l_row]
           location == normalize(row.location)
           ids == setdefault(l_location_id, location)
           p == id_of(ids, location)
           s == lineage_id(l_lineage_id_inv)[compress(row.lineage)]
           t == floordiv(row.day, TIMESTEP)
       IN /\ l_location_id' = ids
          /\ l_sparse_data' = increment(l_sparse_data, <<t, p, s>>)
    /\ l_row' = l_row + 1
    /\ UNCHANGED <<l_columns, l_lineage_id_inv, l_virus_name_pattern, l_location_pattern,
                   l_weekly_strains, l_pc>>
    /\ UNCHANGED notLoadVars

\* Lines 78-84: the counts are written into a (T, P, S) tensor of zeros.
\* max() of no rows raises, and so does an index outside the tensor.
BuildWeeklyStrains ==
    /\ l_pc = "rows"
    /\ l_row > Len(l_columns)
    /\ IF l_columns = <<>>
       THEN l_pc' = "raised" /\ UNCHANGED l_weekly_strains
       ELSE LET T == 1 + floordiv(max([j \in 1..Len(l_columns) |-> l_columns[j].day]),
                                  TIMESTEP)
                P == Len(l_location_id)
                S == Cardinality(DOMAIN lineage_id(l_lineage_id_inv))
                in_range == \A key \in DOMAIN l_sparse_data :
                               key[1] < T /\ key[2] < P /\ key[3] < S
            IN IF in_range
               THEN /\ l_weekly_strains' =
                         Some([t \in 1..T |-> [p \in 1..P |-> [s \in 1..S |->
                            IF <<t - 1, p - 1, s - 1>> \in DOMAIN l_sparse_data
                            THEN l_sparse_data[<<t - 1, p - 1, s - 1>>] ELSE 0]]])
                    /\ l_pc' = "counted"
               ELSE l_pc' = "raised" /\ UNCHANGED l_weekly_strains
    /\ UNCHANGED <<l_columns, l_lineage_id_inv, l_virus_name_pattern, l_location_pattern,
                   l_row, l_sparse_data, l_location_id>>
    /\ UNCHANGED notLoadVars

NextLoad ==
    \/ SkipRow
    \/ CountRow
    \/ BuildWeeklyStrains

(***************************************************************************)
(* The specifications, one per component                                   *)
(***************************************************************************)
IdleDB == NewDB(1)
IdleWriter == NewWriter(1)
IdleShards == NewShards(<<>>, 1, FALSE)
IdleMain == NewMain
IdleNames == NewNames("none", None, None)
IdleStrains == NewModel(Arguments(1, 1, <<>>, "plain"))
IdleLoad == NewLoad(<<>>, <<>>, None, None)

InitDB ==
    /\ \E n \in 1..MaxFastaCount : NewDB(n)
    /\ IdleWriter /\ IdleShards /\ IdleMain /\ IdleNames /\ IdleStrains /\ IdleLoad
SpecDB == InitDB /\ [][NextDB]_vars

InitWriter ==
    /\ \E n \in 1..MaxCount : NewWriter(n)
    /\ IdleDB /\ IdleShards /\ IdleMain /\ IdleNames /\ IdleStrains /\ IdleLoad
SpecWriter == InitWriter /\ [][NextWriter]_vars

InitShards ==
    /\ \E lines \in SeqsUpTo(LinePool, MaxLines), n \in 1..MaxShards, force \in BOOLEAN :
           NewShards(lines, n, force)
    /\ IdleDB /\ IdleWriter /\ IdleMain /\ IdleNames /\ IdleStrains /\ IdleLoad
SpecShards == InitShards /\ [][NextShards]_vars

InitMain ==
    /\ NewMain
    /\ IdleDB /\ IdleWriter /\ IdleShards /\ IdleNames /\ IdleStrains /\ IdleLoad
SpecMain == InitMain /\ [][NextMain]_vars

InitNames ==
    /\ \/ \E a, b \in LoadDataCalls : NewNames("load_data", a, b)
       \/ \E a, b \in FitSviCalls : NewNames("fit_svi", a, b)
       \/ \E a, b \in FitMcmcCalls : NewNames("fit_mcmc", a, b)
    /\ IdleDB /\ IdleWriter /\ IdleShards /\ IdleMain /\ IdleStrains /\ IdleLoad
SpecNames == InitNames /\ [][NextNames]_vars

InitStrains ==
    /\ \E T \in 1..MaxT, R \in RegionCounts, variant \in Variants :
         \E samples \in SeqsUpTo(Samples(T), MaxSamples) :
            NewModel(Arguments(T, R, samples, variant))
    /\ IdleDB /\ IdleWriter /\ IdleShards /\ IdleMain /\ IdleNames /\ IdleLoad
SpecStrains == InitStrains /\ [][NextStrains]_vars

InitLoad ==
    /\ \E columns \in SeqsUpTo(RowPool, MaxRows), lineages \in FeatureLineages,
          virus_name_pattern \in VirusNamePatterns,
          location_pattern \in LocationPatterns :
            NewLoad(columns, lineages, virus_name_pattern, location_pattern)
    /\ IdleDB /\ IdleWriter /\ IdleShards /\ IdleMain /\ IdleNames /\ IdleStrains
SpecLoad == InitLoad /\ [][NextLoad]_vars

Init == InitDB
Next == NextDB
Spec == SpecDB

(***************************************************************************)
(* Claims about NextcladeDB                                                *)
(***************************************************************************)

\* C1: a sequence whose hash is recorded as aligned (loaded from the rows
\* file by __init__, or added by a _flush of this session) is not in the
\* pending FASTA file, and no hash is handed to nextclade after it was
\* recorded: a loaded hash never, any other hash at most once per session.
C1_OnlyNewSamplesAligned ==
    /\ \A i \in 1..Len(fasta_file) : fasta_file[i].name \notin already_aligned
    /\ \A k \in Keys : /\ submitted[k] <= 1
                       /\ k \in loaded => submitted[k] = 0

\* A session that loaded one hash from the rows file and aligned another
\* itself, and has just scheduled a task for the loaded one.
C1_Witness ==
    /\ lastOp.op = "schedule"
    /\ lastOp.outcome = "returned"
    /\ lastOp.key \in loaded
    /\ \E k \in Keys : k \in already_aligned \ loaded /\ submitted[k] = 1
                       /\ Len(tasks[k]) >= 1

WaitReturned == lastOp.op = "wait" /\ lastOp.outcome = "returned"

CallsOf(t) == { i \in 1..Len(calls) : calls[i].task = t }

\* C2: when wait has returned, every task registered by schedule or
\* maybe_schedule has been called exactly once, with the row whose first
\* column is the hash of its sequence, and self._tasks holds no task.
C2_WaitCompletesAll ==
    WaitReturned =>
        /\ \A t \in DOMAIN registered :
              /\ Cardinality(CallsOf(t)) = 1
              /\ \A i \in CallsOf(t) : calls[i].row.seqName = registered[t]
        /\ \A i \in 1..Len(calls) : calls[i].task \in DOMAIN registered
        /\ \A k \in Keys : tasks[k] = <<>>

\* wait has returned after calling three tasks, of two different sequences.
C2_Witness ==
    /\ WaitReturned
    /\ Len(calls) >= 3
    /\ \E i, j \in 1..Len(calls) : calls[i].row.seqName # calls[j].row.seqName

\* C3: a maybe_schedule call appends its task to self._tasks[key] exactly
\* when schedule would not align the sequence; otherwise it leaves the
\* pending set, the FASTA file, the tasks and the aligned set as they were.
C3_MaybeScheduleFrame ==
    [][ (lastOp'.op = "maybe_schedule" /\ nextTask' # nextTask) =>
          IF ~needs_alignment(lastOp'.key)
          THEN /\ tasks' = [tasks EXCEPT ![lastOp'.key] = Append(@, lastOp'.task)]
               /\ UNCHANGED <<pending, fasta_file, already_aligned>>
          ELSE UNCHANGED <<pending, fasta_file, tasks, already_aligned>> ]_vars

\* maybe_schedule has just dropped a task whose sequence is waiting in the
\* FASTA file, while other tasks are registered.
C3_Witness ==
    /\ lastOp.op = "maybe_schedule"
    /\ lastOp.outcome = "dropped"
    /\ lastOp.key \in pending
    /\ \E k \in Keys : tasks[k] # <<>>

\* C4: the rows file holds either what it held when the last _flush began or
\* that followed by every row of the batch of that _flush.
C4_RowsFileAtomic ==
    \/ rows_file.lines = pre_rows
    \/ rows_file.lines = pre_rows \o batch_rows

(***************************************************************************)
(* Claims about ShardedFastaWriter                                         *)
(***************************************************************************)

\* C5: with max_count >= 1, no output file holds more than max_count
\* records, whatever write calls were made.
C5_ShardWithinLimit ==
    w_max_count >= 1 =>
        \A number \in DOMAIN w_disk : Len(w_disk[number]) <= w_max_count

\* Inside a with-block, with max_count 2: two files were filled to the
\* limit and a third one has received a record.
C5_Witness ==
    /\ w_file # None
    /\ w_max_count = 2
    /\ DOMAIN w_disk = {0, 1, 2}
    /\ Len(w_disk[0]) = 2
    /\ Len(w_disk[1]) = 2
    /\ Len(w_disk[2]) = 1

(***************************************************************************)
(* Claims about update_shards                                              *)
(***************************************************************************)
ShardsWritten == s_pc \in {"get_stats", "raised"}

\* The input line numbers (from 0) that belong to shard s, in input order.
RECURSIVE LinesOfShard(_, _, _)
LinesOfShard(s, n, i) ==
    IF i >= Len(s_lines) THEN <<>>
    ELSE (IF i % n = s THEN <<s_lines[i + 1]>> ELSE <<>>) \o LinesOfShard(s, n, i + 1)

\* C10: when update_shards is over, line i was written to shard
\* i mod num_shards and to no other, every shard holds its lines in input
\* order, and the sizes of any two shards differ by at most one.
C10_ShardsPartition ==
    ShardsWritten =>
        LET n == s_num_shards
            names == shard_names(n)
        IN /\ \A i \in 0..(Len(s_lines) - 1) : s_written[i + 1] = {i % n}
           /\ \A s \in 0..(n - 1) : s_disk[names[s + 1]] = LinesOfShard(s, n, 0)
           /\ \A s, t \in 0..(n - 1) :
                  Len(s_disk[names[s + 1]]) - Len(s_disk[names[t + 1]]) \in {-1, 0, 1}

\* Five lines were split into two shards of three and two lines.
C10_Witness ==
    /\ s_pc = "get_stats"
    /\ s_num_shards = 2
    /\ Len(s_lines) = 5
    /\ Len(s_disk[shard_names(2)[1]]) = 3
    /\ Len(s_disk[shard_names(2)[2]]) = 2
    /\ s_lines[1] # s_lines[3]

(***************************************************************************)
(* Claims about mutrans.py                                                 *)
(***************************************************************************)
CachedCalls == { j \in 1..Len(c_events) : c_events[j].fn # "main" }

\* C6: a cached call whose file exists returns what the file holds, does not
\* run the wrapped function and leaves the file as it is; a call whose file
\* does not exist runs the wrapped function once and saves the value it
\* returns; so for every filename the wrapped function has run at most once
\* and all the calls resolving to it returned the same value.
C6_CachedMemoizes ==
    /\ \A j \in CachedCalls :
          LET e == c_events[j]
          IN IF e.before # None
             THEN /\ e.runs = 0
                  /\ e.after = e.before
                  /\ e.result = torch_load(e.before[1])
             ELSE /\ e.runs = 1
                  /\ e.after = Some(torch_save(e.result))
    /\ \A f \in DOMAIN c_tally :
          /\ c_tally[f].runs <= 1
          /\ Cardinality(c_tally[f].returned) = 1

\* A fit_svi call was answered from the file that a process with another
\* seed had written.
C6_Witness ==
    \E j \in CachedCalls :
        /\ c_events[j].fn = "fit_svi"
        /\ c_events[j].runs = 0
        /\ c_events[j].result.seed # c_events[j].call.args.seed

NamesResolved == n_file_a # None

\* C7: two load_data calls that differ in max_feature_order or in their
\* include/exclude filters resolve to different filenames.
C7_LoadDataFilenamesDiffer ==
    (/\ n_kind = "load_data"
     /\ NamesResolved
     /\ \/ n_a.args.max_feature_order # n_b.args.max_feature_order
        \/ n_a.kwargs # n_b.kwargs)
    => n_file_a # n_file_b

\* C8: two fit_svi calls, or two fit_mcmc calls, that differ in the dataset,
\* the seed, max_feature_order, the guide or model type, a step count, the
\* learning rate or the holdout resolve to different filenames.
C8_FitFilenamesDiffer ==
    (/\ n_kind \in {"fit_svi", "fit_mcmc"}
     /\ NamesResolved
     /\ n_a # n_b)
    => n_file_a # n_file_b

McmcReturned == c_pc = "exited" /\ c_args # None /\ c_args[1].mcmc

EventsOf(fn) == { j \in 1..Len(c_events) : c_events[j].fn = fn }

\* The one fit_mcmc call of a --mcmc run has the model type and the step
\* settings of the command line, and results/mutrans.pt is not written.
McmcRequestedOnce ==
    LET args == c_args[1]
    IN /\ Cardinality(EventsOf("fit_mcmc")) = 1
       /\ \A j \in EventsOf("fit_mcmc") :
             /\ c_events[j].call.args = args
             /\ c_events[j].call.rest =
                   << PyStr(<<args.model_type>>), PyInt(args.num_steps),
                      PyInt(args.num_warmup), PyInt(args.num_samples),
                      PyInt(args.max_tree_depth) >>
       /\ EventsOf("main") = {}
       /\ stored(c_disk, ResultsPt) = stored(c_disk0, ResultsPt)

DocumentedCall ==
    LET T == m_in.case_data[1]
        R == m_in.case_data[2]
        N == Len(m_in.sample_time)
    IN /\ m_in.transit_data = <<T, R, R, m_in.transit_data[Len(m_in.transit_data)]>>
       /\ m_in.transit_min >= 0
       /\ m_in.death_data = <<T, R>>
       /\ m_in.population \in {None, Some(<<R>>)}
       /\ N >= 1
       /\ \A j \in 1..N : m_in.sample_time[j] \in 0..T
       /\ Len(m_in.sample_region) = N
       /\ Len(m_in.sample_strain) = N
       /\ m_in.sample_matrix = <<1 + max(m_in.sample_region), R>>
       /\ m_in.mutation_matrix = <<1 + max(m_in.sample_strain), 1 + max(m_in.sample_strain)>>

\* C11: a call with (T, R, R, P)-shaped nonnegative transit data and
\* otherwise well-shaped arguments passes every assertion of the constructor.
C11_DocumentedTransitAccepted ==
    (DocumentedCall /\ m_pc # "assert") => m_err = None

Aggregated == m_pc \in {"register", "done"}

\* The samples of the call whose indices are (t, r, s), the time taken as
\* given or limited to hi.
SamplesAt(t, r, s, hi) ==
    { j \in 1..Len(m_in.sample_time) :
        /\ (IF m_in.sample_time[j] > hi THEN hi ELSE m_in.sample_time[j]) = t
        /\ m_in.sample_region[j] = r
        /\ m_in.sample_strain[j] = s }

\* The sum of the numbers at depth 2 and at depth 3 of nested sequences.
RECURSIVE SumRows(_)
SumRows(x) == IF x = <<>> THEN 0 ELSE Sum(Head(x)) + SumRows(Tail(x))

RECURSIVE SumAll(_)
SumAll(x) == IF x = <<>> THEN 0 ELSE SumRows(Head(x)) + SumAll(Tail(x))

\* Only the (time, coarse region) buckets with a sample are kept, in order,
\* and the caller's three sample tensors are as they were passed.
KeptAndUnmodified ==
    LET T == Len(m_counts)
        Rc == Len(m_counts[1])
        kept == { <<t, r>> \in (1..T) \X (1..Rc) : Sum(m_counts[t][r]) > 0 }
    IN /\ SumAll(m_counts) = Len(m_in.sample_time)
       /\ Len(m_strain_data) = Cardinality(kept)
       /\ Len(m_strain_total) = Cardinality(kept)
       /\ \A <<t, r>> \in kept :
             LET k == 1 + Cardinality({ b \in kept :
                         b[1] < t \/ (b[1] = t /\ b[2] < r) })
             IN /\ m_strain_data[k] = m_counts[t][r]
                /\ m_strain_total[k] = Sum(m_counts[t][r])
       /\ SumRows(m_strain_data) = Len(m_in.sample_time)
       /\ Sum(m_strain_total) = Len(m_in.sample_time)
       /\ m_sample_time = m_in.sample_time
       /\ m_sample_region = m_in.sample_region
       /\ m_sample_strain = m_in.sample_strain

\* C12 as stated: every sample is counted once, in the bucket (sample_time,
\* sample_region, sample_strain) of its own indices, so that the counts
\* total N; only the buckets with a sample are kept; the caller's sample
\* tensors are not modified.
C12_CountedInOwnBucket ==
    Aggregated =>
        /\ \A t \in 1..Len(m_counts) : \A r \in 1..Len(m_counts[t]) :
              \A s \in 1..Len(m_counts[t][r]) :
                 m_counts[t][r][s]
                    = Cardinality(SamplesAt(t - 1, r - 1, s - 1, m_in.case_data[1]))
        /\ KeptAndUnmodified

\* C12 amended: every sample is counted once, in the bucket
\* (min(sample_time, T - 1), sample_region, sample_strain), so that the
\* counts total N; only the buckets with a sample are kept; the caller's
\* sample tensors are not modified.
C12_CountedInClampedBucket ==
    Aggregated =>
        /\ \A t \in 1..Len(m_counts) : \A r \in 1..Len(m_counts[t]) :
              \A s \in 1..Len(m_counts[t][r]) :
                 m_counts[t][r][s]
                    = Cardinality(SamplesAt(t - 1, r - 1, s - 1, m_in.case_data[1] - 1))
        /\ KeptAndUnmodified

\* The constructor has finished for a call with two samples, one of them
\* taken at time T, and some bucket without a sample was dropped.
C12_Witness ==
    /\ m_pc = "done"
    /\ Len(m_in.sample_time) = 2
    /\ \E j \in 1..2 : m_in.sample_time[j] = m_in.case_data[1]
    /\ \E t \in 1..Len(m_strain_mask) : \E r \in 1..Len(m_strain_mask[t]) :
          ~m_strain_mask[t][r]
    /\ m_self[1].strain_data = m_strain_data

(***************************************************************************)
(* Claims about the full run of mutrans.py                                 *)
(***************************************************************************)
FullRunReturned ==
    c_pc = "exited" /\ c_args # None /\ ~c_args[1].mcmc /\ ~c_args[1].svi

\* The fit call main makes for a configuration.
FitCallOf(config) ==
    IF config[1] = PyStr(<<"mcmc">>)
    THEN [fn |-> "fit_mcmc", rest |-> Tail(config)]
    ELSE [fn |-> "fit_svi", rest |-> config]

\* The calls `wanted` were made in this order among the calls `made`.
RECURSIVE InOrder(_, _)
InOrder(wanted, made) ==
    IF wanted = <<>> THEN TRUE
    ELSE IF made = <<>> THEN FALSE
    ELSE IF /\ Head(made).fn = Head(wanted).fn
            /\ Head(made).call.rest = Head(wanted).rest
         THEN InOrder(Tail(wanted), Tail(made))
         ELSE InOrder(wanted, Tail(made))

\* The fits were requested in the order of the list, and results/mutrans.pt
\* was written once, after them, with an entry for every configuration.
FittedInOrderAndSaved ==
    LET cfgs == configs(c_args[1])
        n == Len(c_events)
        fits == SubSeq(c_events, 1, n - 1)
    IN /\ n >= 1
       /\ c_events[n].fn = "main"
       /\ \A j \in 1..(n - 1) : c_events[j].fn # "main"
       /\ InOrder([k \in 1..Len(cfgs) |-> FitCallOf(cfgs[k])], fits)
       /\ c_events[n].before = stored(c_disk0, ResultsPt)
       /\ ResultsPt \in DOMAIN c_disk
       /\ c_events[n].after = Some(c_disk[ResultsPt])
       /\ LET saved == torch_load(c_disk[ResultsPt])
          IN \A k \in 1..Len(cfgs) :
                \E j \in 1..Len(saved) :
                   /\ saved[j][1] = cfgs[k]
                   /\ saved[j][2].fn = FitCallOf(cfgs[k]).fn
                   /\ "mutations" \in DOMAIN saved[j][2]

\* C13: when a full run of main has returned, the configurations were fitted
\* in list order, results/mutrans.pt was written once, after the last fit,
\* with one entry for every configuration, and every entry carries the
\* mutations of the dataset it was fitted on.
C13_FullRunSavesAllFits ==
    FullRunReturned =>
        /\ FittedInOrderAndSaved
        /\ LET saved == torch_load(c_disk[ResultsPt])
           IN \A j \in 1..Len(saved) :
                 saved[j][2].mutations = [mutations_of |-> saved[j][2].dataset]

(***************************************************************************)
(* Claims about pyrocov/mutrans.py                                         *)
(***************************************************************************)
\* The rows that are not skipped: the lineage is in the feature table, the
\* patterns that were given match, and the location has two parts or more.
RetainedRows ==
    { j \in 1..Len(l_columns) :
        /\ \E k \in 1..Len(l_lineage_id_inv) :
              l_lineage_id_inv[k] = compress(l_columns[j].lineage)
        /\ l_virus_name_pattern # None
              => search(l_virus_name_pattern[1], l_columns[j].virus_name)
        /\ l_location_pattern # None
              => search(l_location_pattern[1], l_columns[j].location)
        /\ \E k \in 1..Len(l_columns[j].location) : l_columns[j].location[k] = "/" }

\* The retained rows of time step t, location id p and lineage id s.
RowsOfCell(t, p, s) ==
    { j \in RetainedRows :
        /\ l_columns[j].day \div TIMESTEP = t
        /\ normalize(l_columns[j].location) = l_location_id[p + 1]
        /\ lineage_id(l_lineage_id_inv)[compress(l_columns[j].lineage)] = s }

\* C14: before the regions are filtered, weekly_strains[t, p, s] is the
\* number of retained rows with day // TIMESTEP = t, location id p and
\* lineage id s; the skipped rows are counted nowhere, so the tensor sums to
\* the number of retained rows.
C14_WeeklyStrainsCountsRows ==
    l_pc = "counted" =>
        LET weekly_strains == l_weekly_strains[1]
        IN /\ \A t \in 1..Len(weekly_strains) :
                 \A p \in 1..Len(weekly_strains[t]) :
                    \A s \in 1..Len(weekly_strains[t][p]) :
                       weekly_strains[t][p][s]
                          = Cardinality(RowsOfCell(t - 1, p - 1, s - 1))
           /\ SumAll(weekly_strains) = Cardinality(RetainedRows)

\* The tensor was built from rows of which one was skipped and two, with
\* different spellings of their location or lineage, fell into one cell.
C14_Witness ==
    /\ l_pc = "counted"
    /\ Cardinality(RetainedRows) < Len(l_columns)
    /\ \E i, j \in RetainedRows :
          /\ i # j
          /\ <<l_columns[i].location, l_columns[i].lineage>>
                # <<l_columns[j].location, l_columns[j].lineage>>
          /\ \E t \in 1..Len(l_weekly_strains[1]) :
                \E p \in 1..Len(l_weekly_strains[1][t]) :
                   \E s \in 1..Len(l_weekly_strains[1][t][p]) :
                      /\ {i, j} \subseteq RowsOfCell(t - 1, p - 1, s - 1)
                      /\ l_weekly_strains[1][t][p][s] >= 2

====
